---- MODULE Spec2Model ----
(***************************************************************************)
(* A model of the Forth interpreter of src/src/lib.rs: the vocabulary      *)
(* (word_map), the value stack, the token parser of input_parse with its   *)
(* three states, and the item loop of eval.  One eval call is a Call step, *)
(* one ParseToken step per token, a ParseEnd step, one ExecItem step per   *)
(* item and an EvalReturn step; no other step interleaves with them.       *)
(***************************************************************************)
EXTENDS Integers, Sequences, FiniteSets, TLC

VARIABLES word_map, stack, pc, input, pos, state, curr_custom_word, items,
          result, build, calls, defined

vars == <<word_map, stack, pc, input, pos, state, curr_custom_word, items,
          result, build, calls, defined>>

(***************************************************************************)
(* Bounds of the model.                                                    *)
(***************************************************************************)
\* eval calls made on one instance
MaxCalls == 2

(***************************************************************************)
(* Value = i32.                                                            *)
(***************************************************************************)
MaxValue == 2147483647
MinValue == (-MaxValue) - 1

Abs(n) == IF n < 0 THEN -n ELSE n

(***************************************************************************)
(* Items.                                                                  *)
(***************************************************************************)
Arith_(o) == [k |-> "Arith", w |-> o, v |-> 0]
Stack_(c) == [k |-> "Stack", w |-> c, v |-> 0]
Value_(n) == [k |-> "Value", w |-> "", v |-> n]
Symbol_(s) == [k |-> "Symbol", w |-> s, v |-> 0]

Colon == Symbol_("Colon")
SemiColon == Symbol_("SemiColon")

WORD_MAP ==
    [n \in {"DUP", "DROP", "SWAP", "OVER", "+", "-", "*", "/", ":", ";"} |->
        CASE n = "DUP" -> <<Stack_("Dup")>>
          [] n = "DROP" -> <<Stack_("Drop")>>
          [] n = "SWAP" -> <<Stack_("Swap")>>
          [] n = "OVER" -> <<Stack_("Over")>>
          [] n = "+" -> <<Arith_("Add")>>
          [] n = "-" -> <<Arith_("Sub")>>
          [] n = "*" -> <<Arith_("Mul")>>
          [] n = "/" -> <<Arith_("Div")>>
          [] n = ":" -> <<Colon>>
          [] n = ";" -> <<SemiColon>>]

Errors == {"DivisionByZero", "StackUnderflow", "UnknownWord", "InvalidWord"}

Ok(x) == [ok |-> TRUE, v |-> x, e |-> ""]
Err(e) == [ok |-> FALSE, v |-> <<>>, e |-> e]

(***************************************************************************)
(* Text.  A token is a string; the two conversions the code applies to it  *)
(* are tables over the tokens the model feeds.                             *)
(***************************************************************************)
LowerCased ==
    [t \in {"foo", "Foo", "bar", "dup", "Dup", "drop", "swap", "over"} |->
        CASE t \in {"foo", "Foo"} -> "FOO"
          [] t = "bar" -> "BAR"
          [] t \in {"dup", "Dup"} -> "DUP"
          [] t = "drop" -> "DROP"
          [] t = "swap" -> "SWAP"
          [] t = "over" -> "OVER"]

\* str::to_uppercase
to_uppercase(s) == IF s \in DOMAIN LowerCased THEN LowerCased[s] ELSE s

Literals ==
    [t \in {"0", "1", "2", "4", "9", "-1", "-7", "2147483647", "-2147483648"} |->
        CASE t = "0" -> 0
          [] t = "1" -> 1
          [] t = "2" -> 2
          [] t = "4" -> 4
          [] t = "9" -> 9
          [] t = "-1" -> -1
          [] t = "-7" -> -7
          [] t = "2147483647" -> MaxValue
          [] t = "-2147483648" -> MinValue]

\* s.parse::<Value>()
parse_Value(s) == IF s \in DOMAIN Literals THEN Ok(Literals[s]) ELSE Err("ParseIntError")

(***************************************************************************)
(* i32 arithmetic.  The operators +, - and * of eval_oper overflow outside *)
(* MinValue..MaxValue: a build with overflow checks panics there, a build  *)
(* without them wraps; / panics on MinValue / -1 in every build.           *)
(***************************************************************************)
add_overflows(b, a) ==
    \/ a > 0 /\ b > MaxValue - a
    \/ a < 0 /\ b < MinValue - a

wrapping_add(b, a) ==
    IF ~add_overflows(b, a) THEN b + a
    ELSE IF a > 0 THEN (b + MinValue) + (a + MinValue)
    ELSE (b - MinValue) + (a - MinValue)

sub_overflows(b, a) ==
    \/ a < 0 /\ b > MaxValue + a
    \/ a > 0 /\ b < MinValue + a

wrapping_sub(b, a) ==
    IF ~sub_overflows(b, a) THEN b - a
    ELSE IF a < 0 THEN (b + MinValue) - (a - MinValue)
    ELSE (b - MinValue) - (a + MinValue)

mul_overflows(b, a) ==
    CASE a = 0 \/ b = 0 -> FALSE
      [] a = -1 /\ b # 0 -> b = MinValue
      [] b = -1 /\ a \notin {0, -1} -> a = MinValue
      [] a = MinValue /\ b \notin {0, -1} -> b # 1
      [] b = MinValue /\ a \notin {0, -1, MinValue} -> a # 1
      [] OTHER ->
            IF (a > 0) = (b > 0)
            THEN Abs(a) > MaxValue \div Abs(b)
            ELSE -Abs(a) < (MinValue + Abs(b) - 1) \div Abs(b)

RECURSIVE wrapping_mul_nat(_, _)
wrapping_mul_nat(b, n) ==
    IF n = 0 THEN 0
    ELSE LET h == wrapping_mul_nat(b, n \div 2)
             d == wrapping_add(h, h)
         IN  IF n % 2 = 1 THEN wrapping_add(d, b) ELSE d

wrapping_mul(b, a) ==
    IF a >= 0 THEN wrapping_mul_nat(b, a)
    ELSE IF a = MinValue THEN (IF b % 2 = 0 THEN 0 ELSE MinValue)
    ELSE wrapping_sub(0, wrapping_mul_nat(b, -a))

\* b / a of i32 for a # 0 and (b, a) # (MinValue, -1): the quotient truncated
\* toward zero
trunc_div(b, a) ==
    IF a = MinValue THEN (IF b = MinValue THEN 1 ELSE 0)
    ELSE LET m == Abs(a)
             q == IF b >= 0 \/ b % m = 0 THEN b \div m ELSE (b \div m) + 1
         IN  IF a > 0 THEN q ELSE -q

Panic == [ok |-> FALSE, v |-> <<>>, e |-> "panic"]

overflow(wrapped) == IF build = "debug" THEN Panic ELSE Ok(wrapped)

eval_oper(a, b, o) ==
    CASE o = "Add" -> IF add_overflows(b, a) THEN overflow(wrapping_add(b, a)) ELSE Ok(b + a)
      [] o = "Sub" -> IF sub_overflows(b, a) THEN overflow(wrapping_sub(b, a)) ELSE Ok(b - a)
      [] o = "Mul" -> IF mul_overflows(b, a) THEN overflow(wrapping_mul(b, a)) ELSE Ok(b * a)
      [] o = "Div" ->
            IF a = 0 THEN Err("DivisionByZero")
            ELSE IF b = MinValue /\ a = -1 THEN Panic
            ELSE Ok(trunc_div(b, a))

(***************************************************************************)
(* The stack: a VecDeque used at its back; the top is the last element.    *)
(***************************************************************************)
push_back(s, x) == Append(s, x)
back(s) == s[Len(s)]
pop_back(s) == SubSeq(s, 1, Len(s) - 1)

\* the outcome of executing one item: the stack it leaves and how the loop goes
\* on ("Continue", an error of Errors, or "panic")
Step(s, r) == [stack |-> s, ret |-> r]

\* eval_command with a Drop that ignores the None of pop_back
eval_command_drop_ignores(stk, c) ==
    CASE c = "Dup" ->
            IF Len(stk) = 0 THEN Step(stk, "StackUnderflow")
            ELSE Step(push_back(stk, back(stk)), "Continue")
      [] c = "Drop" -> Step(pop_back(stk), "Continue")
      [] c = "Swap" ->
            IF Len(stk) = 0 THEN Step(stk, "StackUnderflow")
            ELSE IF Len(stk) = 1 THEN Step(pop_back(stk), "StackUnderflow")
            ELSE LET a == back(stk)
                     b == back(pop_back(stk))
                 IN  Step(push_back(push_back(pop_back(pop_back(stk)), a), b), "Continue")
      [] c = "Over" ->
            IF Len(stk) < 2 THEN Step(stk, "StackUnderflow")
            ELSE Step(push_back(stk, stk[Len(stk) - 1]), "Continue")

\* eval_command with a Swap that pushes the two values back in the order it
\* popped them out of
eval_command_swap_keeps(stk, c) ==
    CASE c = "Dup" ->
            IF Len(stk) = 0 THEN Step(stk, "StackUnderflow")
            ELSE Step(push_back(stk, back(stk)), "Continue")
      [] c = "Drop" ->
            IF Len(stk) = 0 THEN Step(stk, "StackUnderflow")
            ELSE Step(pop_back(stk), "Continue")
      [] c = "Swap" ->
            IF Len(stk) = 0 THEN Step(stk, "StackUnderflow")
            ELSE IF Len(stk) = 1 THEN Step(pop_back(stk), "StackUnderflow")
            ELSE LET a == back(stk)
                     b == back(pop_back(stk))
                 IN  Step(push_back(push_back(pop_back(pop_back(stk)), b), a), "Continue")
      [] c = "Over" ->
            IF Len(stk) < 2 THEN Step(stk, "StackUnderflow")
            ELSE Step(push_back(stk, stk[Len(stk) - 1]), "Continue")

eval_command(stk, c) ==
    CASE c = "Dup" ->
            IF Len(stk) = 0 THEN Step(stk, "StackUnderflow")
            ELSE Step(push_back(stk, back(stk)), "Continue")
      [] c = "Drop" ->
            IF Len(stk) = 0 THEN Step(stk, "StackUnderflow")
            ELSE Step(pop_back(stk), "Continue")
      [] c = "Swap" ->
            \* both pop_back() calls run before the match
            IF Len(stk) = 0 THEN Step(stk, "StackUnderflow")
            ELSE IF Len(stk) = 1 THEN Step(pop_back(stk), "StackUnderflow")
            ELSE LET a == back(stk)
                     b == back(pop_back(stk))
                 IN  Step(push_back(push_back(pop_back(pop_back(stk)), a), b), "Continue")
      [] c = "Over" ->
            IF Len(stk) < 2 THEN Step(stk, "StackUnderflow")
            ELSE Step(push_back(stk, stk[Len(stk) - 1]), "Continue")

\* the Exec::Arith_ arm with b pushed back when eval_oper fails
eval_Arith_restores_b(stk, o) ==
    IF Len(stk) = 0 THEN Step(stk, "StackUnderflow")
    ELSE IF Len(stk) = 1 THEN Step(pop_back(stk), "StackUnderflow")
    ELSE LET a == back(stk)
             b == back(pop_back(stk))
             rest == pop_back(pop_back(stk))
             r == eval_oper(a, b, o)
         IN  IF r.ok THEN Step(push_back(rest, r.v), "Continue")
             ELSE Step(push_back(rest, b), r.e)

\* the Exec::Arith_ arm with the stack cleared when eval_oper fails
eval_Arith_clears(stk, o) ==
    IF Len(stk) = 0 THEN Step(stk, "StackUnderflow")
    ELSE IF Len(stk) = 1 THEN Step(pop_back(stk), "StackUnderflow")
    ELSE LET a == back(stk)
             b == back(pop_back(stk))
             rest == pop_back(pop_back(stk))
             r == eval_oper(a, b, o)
         IN  IF r.ok THEN Step(push_back(rest, r.v), "Continue")
             ELSE Step(<<>>, r.e)

\* the Exec::Arith_ arm with the length checked before anything is popped
eval_Arith_checks_first(stk, o) ==
    IF Len(stk) < 2 THEN Step(stk, "StackUnderflow")
    ELSE LET a == back(stk)
             b == back(pop_back(stk))
             rest == pop_back(pop_back(stk))
             r == eval_oper(a, b, o)
         IN  IF r.ok THEN Step(push_back(rest, r.v), "Continue")
             ELSE Step(rest, r.e)

\* the Exec::Arith_ arm of eval
eval_Arith(stk, o) ==
    IF Len(stk) = 0 THEN Step(stk, "StackUnderflow")
    ELSE IF Len(stk) = 1 THEN Step(pop_back(stk), "StackUnderflow")
    ELSE LET a == back(stk)
             b == back(pop_back(stk))
             rest == pop_back(pop_back(stk))
             r == eval_oper(a, b, o)
         IN  IF r.ok THEN Step(push_back(rest, r.v), "Continue")
             ELSE Step(rest, r.e)

\* one iteration of the loop of eval
eval_item(stk, i) ==
    CASE i.k = "Arith" -> eval_Arith(stk, i.w)
      [] i.k = "Stack" -> eval_command(stk, i.w)
      [] i.k = "Value" -> Step(push_back(stk, i.v), "Continue")
      [] OTHER -> Step(stk, "Continue")

(***************************************************************************)
(* The vocabulary and the resolver.                                        *)
(***************************************************************************)
\* HashMap::insert
insert(m, key, val) == [n \in DOMAIN m \cup {key} |-> IF n = key THEN val ELSE m[n]]

str_to_item(wm, s) ==
    LET n == parse_Value(s)
    IN  IF n.ok THEN Ok(<<Value_(n.v)>>)
        ELSE IF to_uppercase(s) \in DOMAIN wm THEN Ok(wm[to_uppercase(s)])
        ELSE Err("UnknownWord")

(***************************************************************************)
(* input_parse.  The parser is the record of its locals and of the         *)
(* vocabulary; ret is "Continue" while the loop goes on and the error      *)
(* once it has returned one.                                               *)
(***************************************************************************)
\* the tokens without the to_uppercase of line 123
input_split_asis(line) == line

\* lines 123 to 125: the tokens of the input, which is given here as the
\* sequence of its whitespace-separated words
input_split(line) == [n \in 1..Len(line) |-> to_uppercase(line[n])]

Parser(wm, st, cw, its, r) ==
    [word_map |-> wm, state |-> st, curr_custom_word |-> cw, items |-> its, ret |-> r]

Return(p, e) == [p EXCEPT !.ret = e]

\* the locals left as the previous call left them
parse_init_carry(wm) == Parser(wm, state, curr_custom_word, <<>>, "Continue")

\* lines 119 to 121
parse_init(wm) == Parser(wm, "Normal", "", <<>>, "Continue")

\* the Normal arm with the resolved sequence taken as the item list
parse_Normal_replaces(p, item_str) ==
    LET r == str_to_item(p.word_map, item_str)
    IN  IF ~r.ok THEN Return(p, r.e)
        ELSE IF r.v = <<>> THEN Return(p, "InvalidWord")
        ELSE IF back(r.v) = Colon THEN [p EXCEPT !.state = "CustomInit"]
        ELSE [p EXCEPT !.items = r.v]

parse_Normal(p, item_str) ==
    LET r == str_to_item(p.word_map, item_str)
    IN  IF ~r.ok THEN Return(p, r.e)
        ELSE IF r.v = <<>> THEN Return(p, "InvalidWord")
        ELSE IF back(r.v) = Colon THEN [p EXCEPT !.state = "CustomInit"]
        ELSE [p EXCEPT !.items = p.items \o r.v]

\* the CustomInit arm with the name entered into a fresh copy of WORD_MAP
parse_CustomInit_resets(p, item_str) ==
    LET r == str_to_item(p.word_map, item_str)
    IN  IF r.ok /\ r.v = <<>> THEN Return(p, "InvalidWord")
        ELSE IF r.ok /\ back(r.v).k = "Value" THEN Return(p, "InvalidWord")
        ELSE [p EXCEPT !.curr_custom_word = item_str,
                       !.word_map = insert(WORD_MAP, item_str, <<>>),
                       !.state = "Custom"]

parse_CustomInit(p, item_str) ==
    LET r == str_to_item(p.word_map, item_str)
    IN  IF r.ok /\ r.v = <<>> THEN Return(p, "InvalidWord")
        ELSE IF r.ok /\ back(r.v).k = "Value" THEN Return(p, "InvalidWord")
        ELSE [p EXCEPT !.curr_custom_word = item_str,
                       !.word_map = insert(p.word_map, item_str, <<>>),
                       !.state = "Custom"]

parse_Custom(p, item_str) ==
    LET r == str_to_item(p.word_map, item_str)
    IN  IF ~r.ok THEN Return(p, r.e)
        ELSE IF r.v = <<>> THEN Return(p, "InvalidWord")
        ELSE IF back(r.v) = SemiColon THEN [p EXCEPT !.state = "Normal"]
        ELSE IF p.curr_custom_word \in DOMAIN p.word_map
             THEN [p EXCEPT !.word_map[p.curr_custom_word] = @ \o r.v]
             ELSE p

\* the body of the loop over the tokens
parse_token(p, item_str) ==
    CASE p.state = "Normal" -> parse_Normal(p, item_str)
      [] p.state = "CustomInit" -> parse_CustomInit(p, item_str)
      [] p.state = "Custom" -> parse_Custom(p, item_str)

\* a parser that accepts the line in any state
parse_end_lenient(p) == "Ok"

\* lines 188 to 191
parse_end(p) == IF p.state = "Normal" THEN "Ok" ELSE "InvalidWord"

(***************************************************************************)
(* eval as a function of the vocabulary, the stack and the line: the same  *)
(* steps, run to the end.                                                  *)
(***************************************************************************)
RECURSIVE parse_loop(_, _, _)
parse_loop(p, tokens, n) ==
    IF p.ret # "Continue" \/ n > Len(tokens) THEN p
    ELSE parse_loop(parse_token(p, tokens[n]), tokens, n + 1)

input_parse(wm, line) ==
    LET p == parse_loop(parse_init(wm), input_split(line), 1)
    IN  IF p.ret # "Continue" THEN p ELSE Return(p, parse_end(p))

RECURSIVE eval_loop(_, _)
eval_loop(stk, its) ==
    IF its = <<>> THEN Step(stk, "Ok")
    ELSE LET r == eval_item(stk, Head(its))
         IN  IF r.ret = "Continue" THEN eval_loop(r.stack, Tail(its)) ELSE r

\* what eval returns ("panic" when it does not return) and what it leaves
eval(wm, stk, line) ==
    LET p == input_parse(wm, line)
        r == IF p.ret = "Ok" THEN eval_loop(stk, p.items) ELSE Step(stk, p.ret)
    IN  [result |-> r.ret, stack |-> r.stack, word_map |-> p.word_map]


(***************************************************************************)
(* The input lines fed to eval: every line of at most two words over       *)
(* FreeWords, and the lines below.                                         *)
(***************************************************************************)
FreeWords == {"1", "+", "dup", ":", ";", "foo"}

ShortLines ==
    {<<>>} \cup {<<a>> : a \in FreeWords} \cup {<<a, b>> : a, b \in FreeWords}

RedefineLine == <<":", "foo", "1", ";", "foo", ":", "foo", "2", ";", "foo">>
DivZeroLine == <<"4", "0", "/">>

ArithLines ==
    { <<"9", "2", "-">>, <<"9", "2", "/">>, <<"9", "2", "+">>, <<"9", "2", "*">>,
      <<"-7", "2", "/">>, <<"9", "-7", "/">>, <<"1", "9", "2", "-">>,
      <<"1", "2", "0", "/">>, DivZeroLine,
      <<"-">>, <<"*">>, <<"/">>, <<"1", "-">>, <<"1", "*">>, <<"1", "/">>,
      <<"2147483647", "1", "+">>, <<"-2147483648", "1", "-">>,
      <<"2147483647", "2", "*">>, <<"-2147483648", "-1", "/">>,
      <<"-2147483648", "-1", "*">>, <<"4", "-2147483648", "-1", "/">> }

StackLines ==
    { <<"drop">>, <<"swap">>, <<"over">>, <<"1", "swap">>, <<"1", "over">>,
      <<"1", "2", "swap">>, <<"1", "2", "over">>, <<"1", "2", "drop">>,
      <<"1", "2", "dup">>, <<"4", "1", "2", "swap">>, <<"4", "1", "2", "over">>,
      <<"1", "dup", "+", "+">>, <<"1", "2", "bar">>, <<"1", "2", ":">> }

CaseLines ==
    { <<"1", "dup">>, <<"1", "DUP">>, <<"1", "Dup">>,
      <<"1", "foo">>, <<"1", "FOO">>, <<"1", "Foo">>,
      <<":", "foo", "dup", ";">>, <<":", "FOO", "DUP", ";">>, <<":", "Foo", "Dup", ";">>,
      <<":", "foo", "dup", ";", "1", "FOO">>, <<":", "FOO", "dup", ";", "1", "foo">>,
      <<":", "foo", "dup", ";", ":", "Foo", "drop", ";">>,
      <<":", "FOO", "dup", ";", ":", "foo", "drop", ";">> }

DefinitionLines ==
    { RedefineLine,
      <<":", "foo">>, <<":", "foo", "1", "2">>, <<":", "foo", "1", "bar">>,
      <<":", "foo", "1", ";">>, <<":", "foo", ";">>, <<":", "foo", ";", "foo">>,
      <<":", "1", "2", ";">>, <<":", "dup", "1", ";">>, <<":", "bar", "foo", ";">>,
      <<":", "+", "0", ";">>, <<":", "+", ";">>, <<":", "+", "0", ";", "1", "2", "+">>,
      <<":", "+", "-", ";", "1", "2", "+">>, <<":", "+", ";", "1", "2", "+">>,
      <<"1", "2", "+">>,
      <<":", "foo", "1", "foo", ";">>, <<":", "foo", "foo", ";">>,
      <<":", "foo", ":", ";">>, <<":", "foo", ":", "1", ";">>,
      <<":", "foo", "dup", ";", ":", "bar", "foo", ";", ":", "foo", "drop", ";", "1", "bar">>,
      <<"1", "bar">> }

Lines == ShortLines \cup ArithLines \cup StackLines \cup CaseLines \cup DefinitionLines

(***************************************************************************)
(* The state machine.  pc is the place of the one caller: "idle" between   *)
(* calls, "parse" in the loop of input_parse, "exec" in the loop of eval,  *)
(* "returned" when eval has returned result, "panicked" when it panicked.  *)
(* defined is a history variable: the names whose last definition reached  *)
(* its `;`.                                                                *)
(***************************************************************************)
Init ==
    /\ word_map = WORD_MAP
    /\ stack = <<>>
    /\ pc = "idle"
    /\ input = <<>>
    /\ pos = 1
    /\ state = "Normal"
    /\ curr_custom_word = ""
    /\ items = <<>>
    /\ result = "None"
    /\ build \in {"debug", "release"}
    /\ calls = 0
    /\ defined = {}

\* eval is called with line; input_parse initialises its locals
Call(line) ==
    /\ pc = "idle"
    /\ calls < MaxCalls
    /\ LET p == parse_init(word_map)
       IN  /\ state' = p.state
           /\ curr_custom_word' = p.curr_custom_word
           /\ items' = p.items
    /\ input' = line
    /\ pos' = 1
    /\ pc' = "parse"
    /\ calls' = calls + 1
    /\ UNCHANGED <<word_map, stack, result, build, defined>>

\* one iteration of the loop of input_parse
ParseToken ==
    /\ pc = "parse"
    /\ pos <= Len(input)
    /\ LET p == parse_token(Parser(word_map, state, curr_custom_word, items, "Continue"),
                            input_split(input)[pos])
       IN  /\ word_map' = p.word_map
           /\ state' = p.state
           /\ curr_custom_word' = p.curr_custom_word
           /\ items' = p.items
           /\ defined' =
                CASE state = "CustomInit" /\ p.state = "Custom" ->
                        defined \ {p.curr_custom_word}
                  [] state = "Custom" /\ p.state = "Normal" ->
                        defined \cup {curr_custom_word}
                  [] OTHER -> defined
           /\ IF p.ret = "Continue"
              THEN /\ pos' = pos + 1
                   /\ UNCHANGED <<pc, result>>
              ELSE /\ result' = p.ret
                   /\ pc' = "returned"
                   /\ UNCHANGED pos
    /\ UNCHANGED <<stack, input, build, calls>>

\* the tokens have run out
ParseEnd ==
    /\ pc = "parse"
    /\ pos > Len(input)
    /\ IF parse_end(Parser(word_map, state, curr_custom_word, items, "Continue")) = "Ok"
       THEN /\ pc' = "exec"
            /\ UNCHANGED result
       ELSE /\ result' = "InvalidWord"
            /\ pc' = "returned"
    /\ UNCHANGED <<word_map, stack, input, pos, state, curr_custom_word, items, build,
                   calls, defined>>

\* one iteration of the loop of eval
ExecItem ==
    /\ pc = "exec"
    /\ items # <<>>
    /\ LET r == eval_item(stack, Head(items))
       IN  /\ stack' = r.stack
           /\ CASE r.ret = "Continue" ->
                    /\ items' = Tail(items)
                    /\ UNCHANGED <<pc, result>>
                [] r.ret = "panic" ->
                    /\ pc' = "panicked"
                    /\ UNCHANGED <<items, result>>
                [] OTHER ->
                    /\ result' = r.ret
                    /\ pc' = "returned"
                    /\ UNCHANGED items
    /\ UNCHANGED <<word_map, input, pos, state, curr_custom_word, build, calls, defined>>

\* the loop of eval is over
EvalReturn ==
    /\ pc = "exec"
    /\ items = <<>>
    /\ result' = "Ok"
    /\ pc' = "returned"
    /\ UNCHANGED <<word_map, stack, input, pos, state, curr_custom_word, items, build,
                   calls, defined>>

\* the caller has the result; the argument and the item list are gone
Resume ==
    /\ pc = "returned"
    /\ input' = <<>>
    /\ pos' = 1
    /\ items' = <<>>
    /\ pc' = "idle"
    /\ UNCHANGED <<word_map, stack, state, curr_custom_word, result, build, calls, defined>>

Next ==
    \/ \E line \in Lines : Call(line)
    \/ ParseToken
    \/ ParseEnd
    \/ ExecItem
    \/ EvalReturn
    \/ Resume

Spec == Init /\ [][Next]_vars

(***************************************************************************)
(* Properties.                                                             *)
(***************************************************************************)
\* the token the parser is at, when pc = "parse" and pos <= Len(input)
token == input_split(input)[pos]

AtToken == pc = "parse" /\ pos <= Len(input)
AtItem == pc = "exec" /\ items # <<>>

FirstCallReturned(line) == pc = "returned" /\ calls = 1 /\ input = line

\* C1: on a fresh interpreter, eval of `: foo 1 ; foo : foo 2 ; foo` returns Ok
\* and leaves the stack 1 2.
C1_RedefineInOneLine ==
    FirstCallReturned(RedefineLine) => result = "Ok" /\ stack = <<1, 2>>

\* C2 as stated: on a fresh interpreter, eval of "4 0 /" fails with
\* DivisionByZero and leaves the stack as 4.
C2_DivZeroLeavesFour ==
    FirstCallReturned(DivZeroLine) => result = "DivisionByZero" /\ stack = <<4>>

\* C2 as amended: on a fresh interpreter, eval of "4 0 /" fails with
\* DivisionByZero and leaves the stack empty, both operands popped.
C2_DivZeroLeavesEmpty ==
    FirstCallReturned(DivZeroLine) => result = "DivisionByZero" /\ stack = <<>>

C2_Witness ==
    FirstCallReturned(DivZeroLine) /\ result = "DivisionByZero" /\ stack = <<>>

\* the stack the items its leave when run on stk, if they all run
RunsThrough(stk, its) == eval_loop(stk, its).ret = "Ok"

\* C3 as stated: when eval returns an error, the stack effects of all tokens
\* that precede the failing token remain in effect: the items those tokens
\* resolved to have run (a parse error), the stack is the one the preceding
\* items left (an error of the item loop).
C3_PrecedingEffectsRemain ==
    [][(pc' = "returned" /\ result' \in Errors) =>
          /\ (pc = "parse" /\ RunsThrough(stack, items)) =>
                stack' = eval_loop(stack, items).stack
          /\ pc = "exec" => stack' = stack]_vars

\* the values the failing item i has popped from stk when it fails
Popped(stk, i) ==
    IF i.k = "Arith" \/ (i.k = "Stack" /\ i.w = "Swap")
    THEN (IF Len(stk) < 2 THEN Len(stk) ELSE 2)
    ELSE 0

\* C3 as amended: when eval returns UnknownWord or InvalidWord (the errors of
\* the parser), no item of the line has run and the stack is as it was before
\* the call; when it returns StackUnderflow or DivisionByZero, the effects of
\* the items run before the failing item remain, less the values the failing
\* item itself popped (up to two from the top), which are not put back.
C3_NoRollback ==
    [][/\ (pc \in {"idle", "parse"}) => stack' = stack
       /\ (pc' = "returned" /\ result' \in {"UnknownWord", "InvalidWord"}) => pc = "parse"
       /\ (pc = "exec" /\ pc' = "returned" /\ result' \in Errors) =>
            /\ result' \in {"StackUnderflow", "DivisionByZero"}
            /\ stack' = SubSeq(stack, 1, Len(stack) - Popped(stack, Head(items)))]_vars

C3_Witness ==
    /\ FirstCallReturned(<<"1", "2", "0", "/">>)
    /\ result = "DivisionByZero"
    /\ stack = <<1>>

Underflows(stk, i) ==
    \/ i.k = "Stack" /\ i.w \in {"Dup", "Drop"} /\ Len(stk) = 0
    \/ i.k = "Stack" /\ i.w \in {"Swap", "Over"} /\ Len(stk) < 2
    \/ i.k = "Arith" /\ Len(stk) < 2

\* C4: executing DUP or DROP on an empty stack, SWAP or OVER on fewer than 2
\* elements, or an arithmetic word on fewer than 2 elements makes eval return
\* StackUnderflow.
C4_Underflow ==
    [][(AtItem /\ Underflows(stack, Head(items))) =>
          pc' = "returned" /\ result' = "StackUnderflow"]_vars

C4_Witness ==
    /\ pc = "returned"
    /\ input = <<"1", "swap">>
    /\ result = "StackUnderflow"

\* C5: if the tokens run out while the parser is in CustomInit or Custom,
\* eval returns InvalidWord; the item loop is entered, and Ok returned, only
\* when parsing ended in Normal.
C5_UnterminatedDefinition ==
    /\ (pc = "returned" /\ pos > Len(input) /\ state \in {"CustomInit", "Custom"}) =>
            result = "InvalidWord"
    /\ pc = "exec" => state = "Normal"
    /\ (pc = "returned" /\ result = "Ok") => state = "Normal"

C5_Witness ==
    /\ pc = "returned"
    /\ input = <<":", "foo", "1", "2">>
    /\ pos > Len(input)
    /\ state = "Custom"
    /\ result = "InvalidWord"

Builtins == DOMAIN WORD_MAP \ {":", ";"}

\* C6: after a built-in word w is redefined with `: w body ;`, every later
\* occurrence of w expands to the new body: in Normal state the body is
\* appended to the items, in a definition body to the word being defined.
C6_RedefinedBuiltin ==
    [][(AtToken /\ token \in Builtins /\ token \in defined) =>
          /\ state = "Normal" =>
                pc' = "parse" /\ items' = items \o word_map[token]
          /\ state = "Custom" =>
                /\ pc' = "parse"
                /\ word_map'[curr_custom_word] =
                        word_map[curr_custom_word] \o word_map[token]]_vars

\* b op a as an i32: the exact result where it fits
i32_result(b, a, o) ==
    CASE o = "Add" -> wrapping_add(b, a)
      [] o = "Sub" -> wrapping_sub(b, a)
      [] o = "Mul" -> wrapping_mul(b, a)
      [] o = "Div" -> IF b = MinValue /\ a = -1 THEN MinValue ELSE trunc_div(b, a)

\* C7: for a stack ending in b a, an arithmetic word (a # 0 for /) pops both
\* and pushes b op a, the elements below b unchanged, and the loop goes on.
C7_ArithOperandOrder ==
    [][(/\ AtItem
        /\ Head(items).k = "Arith"
        /\ Len(stack) >= 2
        /\ (Head(items).w = "Div" => back(stack) # 0)) =>
          /\ pc' = "exec"
          /\ stack' = Append(pop_back(pop_back(stack)),
                             i32_result(back(pop_back(stack)), back(stack),
                                        Head(items).w))]_vars

CaseGroups == {{"foo", "Foo", "FOO"}, {"dup", "Dup", "DUP"}}

DifferOnlyInCase(l1, l2) ==
    /\ Len(l1) = Len(l2)
    /\ \A n \in 1..Len(l1) :
            l1[n] = l2[n] \/ \E g \in CaseGroups : l1[n] \in g /\ l2[n] \in g

CasePairs == {q \in CaseLines \X CaseLines : q[1] # q[2] /\ DifferOnlyInCase(q[1], q[2])}

\* the interpreter is between two calls and eval can be called on it
CanCall == pc = "idle" /\ calls < MaxCalls

\* C8: two lines that differ only in letter case give the same result, the
\* same stack and the same vocabulary from the same starting state, in every
\* state eval can be called in.
C8_CaseInsensitive ==
    CanCall =>
        \A q \in CasePairs : eval(word_map, stack, q[1]) = eval(word_map, stack, q[2])

C8_Witness ==
    /\ pc = "returned"
    /\ input = <<":", "foo", "dup", ";", "1", "FOO">>
    /\ result = "Ok"
    /\ stack = <<1, 1>>

\* C9: every eval call starts parsing in Normal with no items, whatever ended
\* the previous call, and a line of one literal is then evaluated to Ok with
\* the literal pushed.
C9_ParserStateNotCarried ==
    /\ (pc = "parse" /\ pos = 1) => state = "Normal" /\ items = <<>>
    /\ (pc = "returned" /\ input = <<"1">>) =>
            result = "Ok" /\ stack # <<>> /\ back(stack) = 1

C9_Witness ==
    /\ pc = "returned"
    /\ calls = 2
    /\ input = <<"1">>
    /\ result = "Ok"
    /\ "FOO" \in DOMAIN word_map
    /\ "FOO" \notin defined

\* C10: in CustomInit every token that does not parse as an integer is
\* accepted as the name whatever its vocabulary entry is: the entry becomes
\* the empty body and parsing goes on in Custom; tokens that parse as an
\* integer give InvalidWord.
C10_NameAccepted ==
    [][(AtToken /\ state = "CustomInit") =>
          IF parse_Value(token).ok
          THEN pc' = "returned" /\ result' = "InvalidWord"
          ELSE /\ pc' = "parse"
               /\ state' = "Custom"
               /\ token \in DOMAIN word_map'
               /\ word_map'[token] = <<>>]_vars

HasMarker(body) == \E n \in 1..Len(body) : body[n].k = "Symbol"

\* C11: no vocabulary entry written by a completed `: name ... ;` definition
\* holds a DefinitionStart or DefinitionEnd marker in its stored body.
C11_NoMarkerInBody ==
    \A n \in defined : ~HasMarker(word_map[n])

\* C12: the item sequence the parser hands to the evaluator holds no marker.
C12_NoMarkerToEvaluator ==
    pc = "exec" => ~HasMarker(items)

\* C13: in Normal state, every token that resolves and is not `:` has its
\* whole resolved sequence appended to the items without error, an empty
\* sequence included.
C13_NormalAppendsAll ==
    [][(AtToken /\ state = "Normal" /\ token # ":"
            /\ str_to_item(word_map, token).ok) =>
          /\ pc' = "parse"
          /\ state' = "Normal"
          /\ items' = items \o str_to_item(word_map, token).v]_vars

\* C14: in a definition body, a reference to the word being defined is
\* accepted and expands to the partial body stored so far (empty if nothing
\* has been appended yet), and parsing of the definition goes on.
C14_SelfReference ==
    [][(AtToken /\ state = "Custom" /\ token = curr_custom_word) =>
          /\ pc' = "parse"
          /\ state' = "Custom"
          /\ word_map'[curr_custom_word] =
                word_map[curr_custom_word] \o word_map[curr_custom_word]]_vars

SnapshotLine ==
    <<":", "foo", "dup", ";", ":", "bar", "foo", ";", ":", "foo", "drop", ";", "1", "bar">>

\* C15: a step that defines or extends a word leaves the stored body of every
\* other word unchanged, so a word B whose body was expanded from A keeps its
\* body when A is redefined, and a later use of B runs the same items.
C15_RedefinitionLeavesOthers ==
    [][/\ \A n \in DOMAIN word_map :
            n # curr_custom_word' =>
                n \in DOMAIN word_map' /\ word_map'[n] = word_map[n]
       /\ (pc' = "returned" /\ calls = 1 /\ input = SnapshotLine) =>
            /\ result' = "Ok"
            /\ stack' = <<1, 1>>
            /\ word_map'["BAR"] = <<Stack_("Dup")>>
            /\ word_map'["FOO"] = <<Stack_("Drop")>>]_vars

C15_Witness ==
    /\ FirstCallReturned(SnapshotLine)
    /\ result = "Ok"
    /\ stack = <<1, 1>>
    /\ word_map["BAR"] = <<Stack_("Dup")>>
    /\ word_map["FOO"] = <<Stack_("Drop")>>

\* a custom name whose last definition was aborted before its `;`
Aborted(n) == n \in DOMAIN word_map /\ n \notin DOMAIN WORD_MAP /\ n \notin defined

\* C16: when a line aborts inside a definition body, the entry of the name
\* keeps exactly the items appended so far, and a later eval that uses the
\* name expands to that partial body.
C16_PartialDefinitionKept ==
    [][/\ (pc = "parse" /\ state = "Custom" /\ pc' = "returned") =>
            word_map' = word_map
       /\ (AtToken /\ state = "Normal" /\ Aborted(token)) =>
            pc' = "parse" /\ items' = items \o word_map[token]]_vars

\* the stack a stack word leaves when it has its operands
StackWordResult(stk, c) ==
    LET n == Len(stk)
    IN  CASE c = "Dup" -> stk \o <<stk[n]>>
          [] c = "Drop" -> SubSeq(stk, 1, n - 1)
          [] c = "Swap" -> SubSeq(stk, 1, n - 2) \o <<stk[n], stk[n - 1]>>
          [] c = "Over" -> stk \o <<stk[n - 1]>>

\* C17: with enough elements on the stack, DUP pushes a copy of the top, DROP
\* removes the top, SWAP exchanges the top two, OVER pushes a copy of the
\* second from the top; the elements below and the vocabulary are unchanged
\* and the loop goes on.
C17_StackWords ==
    [][(AtItem /\ Head(items).k = "Stack" /\ ~Underflows(stack, Head(items))) =>
          /\ pc' = "exec"
          /\ items' = Tail(items)
          /\ word_map' = word_map
          /\ stack' = StackWordResult(stack, Head(items).w)]_vars

C17_Witness ==
    /\ FirstCallReturned(<<"4", "1", "2", "swap">>)
    /\ result = "Ok"
    /\ stack = <<4, 2, 1>>

FailsWithUnderflow == AtItem /\ pc' = "returned" /\ result' = "StackUnderflow"

\* C18 as stated: an item that fails with StackUnderflow leaves the stack
\* exactly as it was before the item was executed.
C18_UnderflowLeavesStack ==
    [][FailsWithUnderflow => stack' = stack]_vars

\* C18 as amended: an item that fails with StackUnderflow leaves the stack as
\* it was, except that an arithmetic word or SWAP failing on a stack of one
\* element removes that element; DUP, DROP and OVER remove nothing.
C18_UnderflowPopsOne ==
    [][FailsWithUnderflow =>
          stack' = IF /\ Len(stack) = 1
                      /\ \/ Head(items).k = "Arith"
                         \/ Head(items) = Stack_("Swap")
                   THEN <<>>
                   ELSE stack]_vars

C18_Witness ==
    /\ FirstCallReturned(<<"1", "-">>)
    /\ result = "StackUnderflow"
    /\ stack = <<>>

\* C19: an arithmetic word completes with a 32-bit result or with
\* DivisionByZero for every pair of values: eval never aborts.
C19_NeverAborts ==
    pc # "panicked"

SplitParts ==
    { <<"1">>, <<"dup">>, <<"+">>, <<"foo">>, <<"1", "2">>,
      <<":", "foo", "dup", ";">>, <<":", "+", "-", ";">> }

\* eval of A and then, where A returned Ok, eval of B
eval_twice(wm, stk, A, B) ==
    LET r == eval(wm, stk, A)
    IN  IF r.result = "Ok" THEN eval(r.word_map, r.stack, B) ELSE r

\* C20: from the same starting state, whenever eval(A) followed by eval(B)
\* both return Ok, one eval of A and B joined also returns Ok and ends with
\* the same stack and the same vocabulary, in every state eval can be called
\* in.
C20_SplitLine ==
    CanCall =>
        \A A \in SplitParts :
            LET r1 == eval(word_map, stack, A)
            IN  r1.result = "Ok" =>
                    \A B \in SplitParts :
                        LET r2 == eval(r1.word_map, r1.stack, B)
                        IN  r2.result = "Ok" => eval(word_map, stack, A \o B) = r2

C20_Witness ==
    /\ CanCall
    /\ stack # <<>>
    /\ "FOO" \in defined
    /\ \E A \in SplitParts, B \in SplitParts :
            LET r == eval_twice(word_map, stack, A, B)
            IN  /\ r.result = "Ok"
                /\ r.stack # stack
                /\ r.word_map # word_map

====
